---- MODULE Spec2Model ----
(***************************************************************************)
(* grower-js: the JSNI call/marshaling protocol of src/grower-js/src/jsni.ts *)
(* (JavaScriptNativeInterface and JSNIFunctionCallingSession).              *)
(*                                                                         *)
(* Representation of JavaScript values.  TLC's integers are 32 bits wide,  *)
(* JavaScript's are not, so an integer (a Number holding an integer, or a  *)
(* BigInt) is held as sign and magnitude, the magnitude a little-endian    *)
(* sequence of bytes without trailing zero bytes.  Shared memory is a      *)
(* function from addresses to bytes.                                       *)
(***************************************************************************)
EXTENDS Integers, Sequences, FiniteSets, TLC

(***************************************************************************)
(* enum JSNIKind                                                           *)
(***************************************************************************)
I8 == 0
I16 == 1
I32 == 2
I64 == 3
U8 == 4
U16 == 5
U32 == 6
U64 == 7
F32 == 8
F64 == 9
Bool == 10
Char == 11
String == 12
VecU8 == 13
Null == 14

Byte == 0..255

(***************************************************************************)
(* Byte sequences as numbers                                               *)
(***************************************************************************)
RECURSIVE Trim(_)
\* a magnitude without its trailing (most significant) zero bytes
Trim(b) == IF b = <<>> THEN <<>>
           ELSE IF b[Len(b)] = 0 THEN Trim(SubSeq(b, 1, Len(b) - 1)) ELSE b

\* b as exactly n bytes: zero-extended, or cut to its n low bytes (mod 2^(8n))
Fit(b, n) == [i \in 1..n |-> IF i <= Len(b) THEN b[i] ELSE 0]

RECURSIVE AddOne(_)
\* b + 1 on a fixed number of bytes, the carry out of the top byte dropped
AddOne(b) == IF b = <<>> THEN <<>>
             ELSE IF b[1] = 255 THEN <<0>> \o AddOne(Tail(b))
             ELSE <<b[1] + 1>> \o Tail(b)

\* two's complement negation on Len(b) bytes
TwosNeg(b) == AddOne([i \in 1..Len(b) |-> 255 - b[i]])

RECURSIVE ToNat(_)
\* the value of a magnitude as a TLC number; used for addresses and counts only
ToNat(b) == IF b = <<>> THEN 0 ELSE b[1] + 256 * ToNat(Tail(b))

RECURSIVE NatBytes(_)
NatBytes(n) == IF n = 0 THEN <<>> ELSE <<n % 256>> \o NatBytes(n \div 256)

(***************************************************************************)
(* JavaScript values                                                       *)
(***************************************************************************)
Undefined == [t |-> "undefined"]
JsNull == [t |-> "null"]
\* a Number holding an integer (Number.isInteger is true of it)
Num(neg, mag) == [t |-> "number", neg |-> neg /\ Trim(mag) # <<>>, mag |-> Trim(mag)]
BigInt(neg, mag) == [t |-> "bigint", neg |-> neg /\ Trim(mag) # <<>>, mag |-> Trim(mag)]
\* a Number that is no integer, by the 8 bytes of its IEEE 754 double (little-endian)
Float(bits) == [t |-> "number", f64 |-> bits]
Str(cps) == [t |-> "string", cp |-> cps]
Bytes(b) == [t |-> "object", u8 |-> b]
JsBool(v) == [t |-> "boolean", v |-> v]
PlainObject == [t |-> "object", plain |-> TRUE]
N(n) == Num(FALSE, NatBytes(n))
MinusOne == Num(TRUE, <<1>>)

\* typeof null is "object"
typeof(v) == IF v.t = "null" THEN "object" ELSE v.t
IsInteger(v) == v.t = "number" /\ "mag" \in DOMAIN v
IsUint8Array(v) == v.t = "object" /\ "u8" \in DOMAIN v
IsArray(v) == v.t = "object" /\ "items" \in DOMAIN v
List(items) == [t |-> "object", items |-> items]

(***************************************************************************)
(* TextEncoder / TextDecoder (UTF-8), on code points below 2^16            *)
(***************************************************************************)
ReplacementChar == 65533

\* TextEncoder.encode of one code point
EncodeCodePoint(c) ==
    IF c < 128 THEN <<c>>
    ELSE IF c < 2048 THEN <<192 + (c \div 64), 128 + (c % 64)>>
    ELSE <<224 + (c \div 4096), 128 + ((c \div 64) % 64), 128 + (c % 64)>>

RECURSIVE TextEncode(_)
\* new TextEncoder().encode(s)
TextEncode(cps) == IF cps = <<>> THEN <<>>
                   ELSE EncodeCodePoint(cps[1]) \o TextEncode(Tail(cps))

IsCont(b, i) == i <= Len(b) /\ b[i] \in 128..191

RECURSIVE DecodeFrom(_, _)
\* the code points of b[i..]; a byte that starts no well-formed sequence of one
\* to three bytes is replaced by U+FFFD
DecodeFrom(b, i) ==
    IF i > Len(b) THEN <<>>
    ELSE IF b[i] < 128 THEN <<b[i]>> \o DecodeFrom(b, i + 1)
    ELSE IF b[i] \in 194..223 /\ IsCont(b, i + 1)
         THEN <<(b[i] - 192) * 64 + (b[i + 1] - 128)>> \o DecodeFrom(b, i + 2)
    ELSE IF /\ b[i] \in 224..239 /\ IsCont(b, i + 1) /\ IsCont(b, i + 2)
            /\ (b[i] = 224 => b[i + 1] >= 160)
            /\ (b[i] = 237 => b[i + 1] <= 159)
         THEN <<(b[i] - 224) * 4096 + (b[i + 1] - 128) * 64 + (b[i + 2] - 128)>>
              \o DecodeFrom(b, i + 3)
    ELSE <<ReplacementChar>> \o DecodeFrom(b, i + 1)

\* new TextDecoder().decode(b): a leading byte order mark is dropped
TextDecode(b) ==
    IF Len(b) >= 3 /\ SubSeq(b, 1, 3) = <<239, 187, 191>> THEN DecodeFrom(b, 4)
    ELSE DecodeFrom(b, 1)

(***************************************************************************)
(* DataView getters (little-endian) on a memory m                          *)
(***************************************************************************)
\* memory is a sequence of bytes: the byte at address a is m[a + 1].
\* The n bytes of m from address a
Rd(m, a, n) == SubSeq(m, a + 1, a + n)

\* Uint8Array.prototype.slice(ptr, ptr + len): clamped to the array
Slice(m, ptr, len) ==
    LET end == IF ptr + len > Len(m) THEN Len(m) ELSE ptr + len
    IN  IF ptr >= end THEN <<>> ELSE SubSeq(m, ptr + 1, end)

Unsigned(b) == Num(FALSE, b)
Signed(b) == IF b[Len(b)] >= 128 THEN Num(TRUE, TwosNeg(b)) ELSE Num(FALSE, b)
getUint32(m, a) == ToNat(Trim(Rd(m, a, 4)))

Pow2(n) == 2 ^ n

\* the double with bits b (8 bytes), as a JavaScript value: an integer Number
\* when the double is integer-valued (computed for magnitudes below 2^21; the
\* model draws no larger integer-valued double), else a non-integer Number
F64Value(b) ==
    LET e == (b[8] % 128) * 16 + (b[7] \div 16)
        E == e - 1023
        top20 == (b[7] % 16) * 65536 + b[6] * 256 + b[5]
        lowZero == b[1] = 0 /\ b[2] = 0 /\ b[3] = 0 /\ b[4] = 0
    IN  IF e = 0 /\ top20 = 0 /\ lowZero THEN N(0)
        ELSE IF E \in 0..20 /\ lowZero /\ top20 % Pow2(20 - E) = 0
             THEN Num(b[8] >= 128, NatBytes(Pow2(E) + top20 \div Pow2(20 - E)))
        ELSE Float(b)

\* the bits of the double that equals the single with bits b (4 bytes);
\* subnormal singles are not drawn by the model
Widen(b) ==
    LET sign == b[4] \div 128
        e == (b[4] % 128) * 2 + (b[3] \div 128)
        mant == (b[3] % 128) * 65536 + b[2] * 256 + b[1]
        e64 == IF e = 0 THEN 0 ELSE IF e = 255 THEN 2047 ELSE e + 896
    IN  <<0, 0, 0, (mant % 8) * 32, (mant \div 8) % 256, (mant \div 2048) % 256,
          (e64 % 16) * 16 + ((mant \div 524288) % 16), sign * 128 + (e64 \div 16)>>

(***************************************************************************)
(* JSNIFunctionCallingSession: readString, readVec, parseArgs              *)
(***************************************************************************)
readString(m, ptr, len) == Str(TextDecode(Slice(m, ptr, len)))
\* a view of the bytes in place of a copy (subarray for slice)
readVecView(m, ptr, len) == [t |-> "object", view |-> [ptr |-> ptr, len |-> len]]

\* this.arr.slice(ptr, ptr + len): a copy of the bytes
readVec(m, ptr, len) == Bytes(Slice(m, ptr, len))

\* the values one slot pushes: one value for a tag of JSNIKind, none otherwise
\* (the switch has no default)
parseSlot(m, a) ==
    LET type == m[a + 8 + 1]
        p(n) == Rd(m, a, n)
    IN  CASE type = I8 -> <<Signed(p(1))>>
          [] type = I16 -> <<Signed(p(2))>>
          [] type = I32 -> <<Signed(p(4))>>
          [] type = I64 -> <<[Signed(p(8)) EXCEPT !.t = "bigint"]>>
          [] type = U8 -> <<Unsigned(p(1))>>
          [] type = U16 -> <<Unsigned(p(2))>>
          [] type = U32 -> <<Unsigned(p(4))>>
          [] type = U64 -> <<BigInt(FALSE, p(8))>>
          [] type = F64 -> <<F64Value(p(8))>>
          [] type = F32 -> <<F64Value(Widen(p(4)))>>
          [] type = Bool -> <<JsBool(m[a + 1] # 0)>>
          [] type = Char -> <<Str(<<ToNat(p(2))>>)>>
          [] type = String -> <<readString(m, getUint32(m, a), getUint32(m, a + 4))>>
          [] type = VecU8 -> <<readVec(m, getUint32(m, a), getUint32(m, a + 4))>>
          [] type = Null -> <<JsNull>>
          [] OTHER -> <<>>

RECURSIVE parseArgsFrom(_, _, _, _)
parseArgsFrom(m, argsPtr, argsCount, i) ==
    IF i >= argsCount THEN <<>>
    ELSE parseSlot(m, argsPtr + i * 16) \o parseArgsFrom(m, argsPtr, argsCount, i + 1)

parseArgs(m, argsPtr, argsCount) == parseArgsFrom(m, argsPtr, argsCount, 0)

(***************************************************************************)
(* BigInt operators used on fat pointers (non-negative operands)           *)
(***************************************************************************)
RECURSIVE BitAnd(_, _)
BitAnd(x, y) == IF x = 0 \/ y = 0 THEN 0
                ELSE (x % 2) * (y % 2) + 2 * BitAnd(x \div 2, y \div 2)

\* a & b
BigAnd(a, b) ==
    LET n == IF Len(a.mag) < Len(b.mag) THEN Len(a.mag) ELSE Len(b.mag)
    IN  BigInt(FALSE, [i \in 1..n |-> BitAnd(a.mag[i], b.mag[i])])

\* a >> BigInt(k)
BigShiftRight(a, k) ==
    LET drop == k \div 8
        r == k % 8
        at(i) == IF i <= Len(a.mag) THEN a.mag[i] ELSE 0
        n == IF Len(a.mag) > drop THEN Len(a.mag) - drop ELSE 0
    IN  BigInt(FALSE, [i \in 1..n |->
            (at(i + drop) \div Pow2(r)) + (at(i + drop + 1) % Pow2(r)) * Pow2(8 - r)])

\* Number(b), exact below 2^53
ToNumber(b) == Num(b.neg, b.mag)

\* BigInt(0xffffffff)
Mask32 == BigInt(FALSE, <<255, 255, 255, 255>>)

\* Number(fat_ptr & BigInt(0xffffffff))
LowWord(fat_ptr) == ToNumber(BigAnd(fat_ptr, Mask32))

\* the high word taken as a signed 32-bit integer
HighWordInt32(fat_ptr) == Signed(Fit(BigShiftRight(fat_ptr, 32).mag, 4))

\* Number(fat_ptr >> BigInt(32))
HighWord(fat_ptr) == ToNumber(BigShiftRight(fat_ptr, 32))

(***************************************************************************)
(* The module side's allocator (GrowerRsImports): a bump allocator over    *)
(* the linear memory, which grows the memory by whole pages when the       *)
(* region does not fit.  Growing replaces memory.buffer: gen counts the    *)
(* buffers there have been.                                                *)
(***************************************************************************)
PageSize == 64

\* (length << 32) | offset
pack(offset, length) == BigInt(FALSE, Fit(offset.mag, 4) \o Fit(length.mag, 4))

Zeros(n) == [i \in 1..n |-> 0]

\* WebAssembly.Memory.prototype.grow(pages)
Grow(M, pages) ==
    [M EXCEPT !.mem = M.mem \o Zeros(pages * PageSize), !.gen = M.gen + 1]

PagesFor(n) == (n + PageSize - 1) \div PageSize

\* a region of size bytes at the heap top
Reserve(M, size) ==
    LET top == M.top + size
        M1 == IF top > Len(M.mem) THEN Grow(M, PagesFor(top - Len(M.mem))) ELSE M
    IN  [M1 EXCEPT !.top = top]

\* imports.alloc(size): <<memory after the call, fat pointer>>
alloc(M, size) ==
    LET fp == pack(N(M.top), N(size))
    IN  <<[Reserve(M, size) EXCEPT !.log = Append(@, <<"alloc", size, fp>>)], fp>>

\* imports.alloc_jsni_value(count)
alloc_jsni_value(M, count) ==
    LET fp == pack(N(M.top), N(count))
    IN  <<[Reserve(M, count * 16) EXCEPT
              !.log = Append(@, <<"alloc_jsni_value", count, fp>>)], fp>>

(***************************************************************************)
(* State                                                                   *)
(***************************************************************************)
VARIABLES
    functions,   \* window.__grower_jsni_functions: absent, or its own properties
    entryPoint,  \* whether window.jsni_call is installed
    memory,      \* the module's WebAssembly.Memory and its allocator's heap top
    shared,      \* whether the memory was built shared (SharedArrayBuffer)
    pc,          \* per invocation: "idle", "awaiting", "resolved", "rejected"
    session,     \* per invocation: the JSNIFunctionCallingSession
    pending,     \* per invocation: what session.call() has settled with
    result,      \* per invocation: the value the entry point resolved to
    trace,       \* per invocation: what it did (inputs, callback, allocator calls, writes)
    lastReg,     \* the last register call that returned: its name and callback
    regCount,    \* how often register has returned
    fat,         \* a fat pointer and the words extracted from it
    roundTrip,   \* an integer a callback returned, its slot, what the decoder reads back
    awaited,     \* one result list returned directly and returned through a promise
    grower,      \* a Grower instance: its initialized flag and its init() calls
    window,      \* the globals of sys.ts: OPFS root, descriptor table, handlers
    io           \* the calls of open and close: where they are, what they returned

\* the state outside the JavaScript native interface
others == <<roundTrip, awaited, grower, window, io>>

vars == <<functions, entryPoint, memory, shared, pc, session, pending, result,
          trace, lastReg, regCount, fat, others>>

(***************************************************************************)
(* Access to memory through a session's views (this.view, this.arr).       *)
(* A view is the buffer it was made on (gen) and that buffer's length.     *)
(* Growing a memory that is not shared detaches the old buffer; the old    *)
(* buffer of a shared memory stays usable, at its old length.              *)
(* W is the state an encode threads through: memory, heap top, the log of  *)
(* its allocator calls and writes in order, and what has been thrown.      *)
(***************************************************************************)
NewView(M) == [gen |-> M.gen, len |-> Len(M.mem)]

Detached(W, view) == view.gen # W.gen /\ ~shared

\* m with bytes stored from address a (the region lies within m)
WriteAt(m, a, bytes) ==
    SubSeq(m, 1, a) \o bytes \o SubSeq(m, a + Len(bytes) + 1, Len(m))

\* DataView.prototype.setXxx(a, ...) and Uint8Array.prototype.set(bytes, a)
setBytes(W, view, a, bytes) ==
    IF W.thrown # "none" THEN W
    ELSE LET W1 == [W EXCEPT !.stale = @ \/ view.gen # W.gen]
         IN  IF Detached(W, view) THEN [W1 EXCEPT !.thrown = "TypeError"]
             ELSE IF a + Len(bytes) > view.len THEN [W1 EXCEPT !.thrown = "RangeError"]
             ELSE [W1 EXCEPT !.mem = WriteAt(@, a, bytes),
                             !.log = Append(@, <<"write", a, bytes>>)]

\* this.arr[a] = b: ignored when a is outside the array or the buffer is detached
setIndex(W, view, a, b) ==
    IF W.thrown # "none" THEN W
    ELSE LET W1 == [W EXCEPT !.stale = @ \/ view.gen # W.gen]
         IN  IF Detached(W, view) \/ a >= view.len THEN W1
             ELSE [W1 EXCEPT !.mem = WriteAt(@, a, <<b>>),
                             !.log = Append(@, <<"write", a, <<b>>>>)]

\* the 8 bytes setBigInt64 stores for an integer: two's complement, mod 2^64
Int64Bytes(v) == IF v.neg THEN TwosNeg(Fit(v.mag, 8)) ELSE Fit(v.mag, 8)

\* setInt32(a, kind, true)
TagBytes(kind) == <<kind, 0, 0, 0>>

\* setUint32(a, n, true)
Uint32Bytes(n) == Fit(n.mag, 4)

Addr(n) == ToNat(n.mag)

(***************************************************************************)
(* JSNIFunctionCallingSession.buildReturnValues                            *)
(***************************************************************************)
\* values.length: -1 stands for undefined
Length(values) ==
    IF IsArray(values) THEN Len(values.items)
    ELSE IF values.t = "string" THEN Len(values.cp)
    ELSE IF IsUint8Array(values) THEN Len(values.u8)
    ELSE -1

\* values[i], i from 0
Element(values, i) ==
    IF IsArray(values) THEN values.items[i + 1]
    ELSE IF values.t = "string" THEN Str(<<values.cp[i + 1]>>)
    ELSE N(values.u8[i + 1])

\* case "string"
encodeString(W, view, a, v) ==
    LET strBytes == TextEncode(v.cp)
        r == alloc(W, Len(strBytes) + 1)
        strFatPtr == r[2]
        strPtr == Addr(LowWord(strFatPtr))
        W1 == setBytes(r[1], view, strPtr, strBytes)
        W2 == setIndex(W1, view, strPtr + Len(strBytes), 0)
        W3 == setBytes(W2, view, a, Uint32Bytes(HighWord(strFatPtr)))
    IN  setBytes(W3, view, a + 8, TagBytes(String))

\* case "object", instanceof Uint8Array
encodeVec(W, view, a, v) ==
    LET vecBytes == v.u8
        r == alloc(W, Len(vecBytes))
        vecFatPtr == r[2]
        vecPtr == Addr(LowWord(vecFatPtr))
        W1 == setBytes(r[1], view, vecPtr, vecBytes)
        W2 == setBytes(W1, view, a, Uint32Bytes(HighWord(vecFatPtr)))
    IN  setBytes(W2, view, a + 8, TagBytes(VecU8))

\* the body of the loop for values[i] = v, the slot at a = ptr + i * 16
encodeValue(W, view, a, v) ==
    CASE typeof(v) = "number" ->
            IF IsInteger(v)
            THEN setBytes(setBytes(W, view, a, Int64Bytes(v)), view, a + 8, TagBytes(I64))
            ELSE setBytes(setBytes(W, view, a, v.f64), view, a + 8, TagBytes(F64))
      [] typeof(v) = "bigint" ->
            setBytes(setBytes(W, view, a, Int64Bytes(v)), view, a + 8, TagBytes(I64))
      [] typeof(v) = "string" -> encodeString(W, view, a, v)
      [] typeof(v) = "object" ->
            IF IsUint8Array(v) THEN encodeVec(W, view, a, v)
            ELSE IF v = JsNull THEN setBytes(W, view, a + 8, TagBytes(Null))
            ELSE [W EXCEPT !.thrown = "Error"]
      [] OTHER -> W

RECURSIVE encodeFrom(_, _, _, _, _)
encodeFrom(W, view, ptr, values, i) ==
    IF W.thrown # "none" \/ i >= Length(values) THEN W
    ELSE encodeFrom(encodeValue(W, view, ptr + i * 16, Element(values, i)),
                    view, ptr, values, i + 1)

\* alloc_jsni_value(undefined) receives 0
ToUint32(n) == IF n < 0 THEN 0 ELSE n

\* <<W after the call, the number returned>>; nothing is returned when W.thrown
buildReturnValues(W, view, values) ==
    LET size == Length(values)
        r == alloc_jsni_value(W, ToUint32(size))
        fat_ptr == r[2]
        ptr == Addr(LowWord(fat_ptr))
    IN  <<encodeFrom(r[1], view, ptr, values, 0), HighWord(fat_ptr)>>

(***************************************************************************)
(* Bounds and inputs                                                       *)
(***************************************************************************)
MaxCalls == 2      \* invocations of the entry point
MaxRegister == 2   \* calls of register that return

Sessions == 1..MaxCalls

NameA == <<97>>
NameB == <<98>>
NameValueOf == <<118, 97, 108, 117, 101, 79, 102>>

\* names the host registers callbacks under, and names the module dispatches
RegisterNames == {NameA, NameB}
DispatchNames == {NameA, NameValueOf}

\* the callbacks the host registers
Callbacks == {"f1", "f2"}

\* one slot as the module side writes it: a tag with 8 payload bytes, or a tag
\* with the bytes its (offset, length) payload points to
Scalar(tag, payload) == [tag |-> tag, payload |-> Fit(payload, 8)]
Pointed(tag, data) == [tag |-> tag, data |-> data]

\* the argument slot arrays the module side passes
SlotArrays ==
    { <<>>,
      <<Scalar(I32, <<5>>), Scalar(I32, <<7>>)>>,
      <<Scalar(Null, <<>>), Scalar(15, <<9>>), Pointed(String, <<195, 169>>)>> }

\* what a callback may yield when called without arguments
Returns ==
    { Undefined, JsNull, List(<<>>),
      List(<<N(12)>>),
      List(<<MinusOne, Str(<<111, 233>>)>>),
      List(<<JsBool(TRUE)>>),
      List(<<Str(<<111, 233>>), PlainObject>>) }

Fulfilled(v) == [ok |-> TRUE, value |-> v]
Rejected(e) == [ok |-> FALSE, value |-> [t |-> "error", name |-> e]]

\* the ways a call of a registered callback with args may settle: called with
\* arguments it yields nothing or a list of one number, without it yields one
\* of Returns or throws
Outcomes(args) ==
    IF args = <<>> THEN {Fulfilled(v) : v \in Returns} \cup {Rejected("Error")}
    ELSE {Fulfilled(Undefined), Fulfilled(List(<<N(12)>>))}

(***************************************************************************)
(* The module side writing a call into memory: at base the name's          *)
(* (offset, length) pair, the name at base + 8, the slots at base + 16,    *)
(* the bytes the slots point to behind the slots.                          *)
(***************************************************************************)
IsPointed(slot) == "data" \in DOMAIN slot
DataLen(slot) == IF IsPointed(slot) THEN Len(slot.data) ELSE 0

RECURSIVE DataBefore(_, _)
\* the bytes the slots before slot i point to
DataBefore(slots, i) ==
    IF i <= 1 THEN 0 ELSE DataBefore(slots, i - 1) + DataLen(slots[i - 1])

Word(n) == Fit(NatBytes(n), 4)

SlotBytes(slot, dataAt) ==
    (IF IsPointed(slot) THEN Word(dataAt) \o Word(Len(slot.data)) ELSE slot.payload)
    \o <<slot.tag>> \o Zeros(7)

RECURSIVE Concat(_)
Concat(ss) == IF ss = <<>> THEN <<>> ELSE ss[1] \o Concat(Tail(ss))

CallImage(base, name, slots) ==
    LET nameBytes == TextEncode(name)
        dataBase == base + 16 + 16 * Len(slots)
    IN  Word(base + 8) \o Word(Len(nameBytes)) \o Fit(nameBytes, 8)
        \o Concat([i \in 1..Len(slots) |->
                      SlotBytes(slots[i], dataBase + DataBefore(slots, i))])
        \o Concat([i \in 1..Len(slots) |->
                      IF IsPointed(slots[i]) THEN slots[i].data ELSE <<>>])

(***************************************************************************)
(* JavaScriptNativeInterface                                               *)
(***************************************************************************)
NoSession == [view |-> [gen |-> 0, len |-> 0], argsPtr |-> 0, argsCount |-> 0,
              functionName |-> Str(<<>>), args |-> <<>>]
NoTrace == [name |-> <<>>, slots |-> <<>>, invoked |-> "none", args |-> <<>>,
            log |-> <<>>, stale |-> FALSE, thrown |-> "none"]
None == [t |-> "none"]
NoOutcome == [ok |-> FALSE, value |-> None]

MaxInit == 3       \* calls of Grower.init on one instance
InitCalls == 1..MaxInit

\* a Grower before any init(): initialized = false, no call of init() yet
NoGrower == [initialized |-> FALSE,
             call |-> [c \in InitCalls |-> [pc |-> "idle", error |-> "none"]]]
\* window before initSys: no OPFS root, no descriptor table, no handlers
NoWindow == [root |-> FALSE, fdmap |-> [exists |-> FALSE, own |-> <<>>],
             stdout |-> "undefined", stderr |-> "undefined"]
MaxIo == 4         \* calls of open and close
IoCalls == 1..MaxIo
\* no call of open or close yet
NoIo == [k \in IoCalls |-> [pc |-> "idle", op |-> "none", arg |-> None,
                            found |-> None, ret |-> None, error |-> "none"]]

Init ==
    /\ functions = [exists |-> FALSE, own |-> <<>>]
    /\ entryPoint = FALSE
    /\ memory = [mem |-> Zeros(PageSize), gen |-> 0, top |-> 0]
    /\ shared \in BOOLEAN
    /\ pc = [s \in Sessions |-> "idle"]
    /\ session = [s \in Sessions |-> NoSession]
    /\ pending = [s \in Sessions |-> NoOutcome]
    /\ result = [s \in Sessions |-> None]
    /\ trace = [s \in Sessions |-> NoTrace]
    /\ lastReg = None
    /\ regCount = 0
    /\ fat = None
    /\ roundTrip = None
    /\ awaited = None
    /\ grower = NoGrower
    /\ window = NoWindow
    /\ io = NoIo

\* an init that installs an empty registry whether or not there is one
JsniInitFresh ==
    /\ functions' = [exists |-> TRUE, own |-> <<>>]
    /\ entryPoint' = TRUE
    /\ UNCHANGED <<memory, shared, pc, session, pending, result, trace, lastReg,
                   regCount, fat, others>>

\* JavaScriptNativeInterface.init
JsniInit ==
    /\ functions' = IF functions.exists THEN functions
                    ELSE [exists |-> TRUE, own |-> <<>>]
    /\ entryPoint' = TRUE
    /\ UNCHANGED <<memory, shared, pc, session, pending, result, trace, lastReg,
                   regCount, fat, others>>

\* the own property name of F, "undefined" when there is none
GetOwn(F, name) == IF name \in DOMAIN F.own THEN F.own[name] ELSE "undefined"

\* an assignment that keeps the property there is
SetPropertyKeepFirst(F, name, func) ==
    IF name \in DOMAIN F.own THEN F
    ELSE [F EXCEPT !.own = [n \in DOMAIN F.own \cup {name} |->
                               IF n = name THEN func ELSE F.own[n]]]

\* functions[name] = func
SetProperty(F, name, func) ==
    [F EXCEPT !.own = [n \in DOMAIN F.own \cup {name} |->
                          IF n = name THEN func ELSE F.own[n]]]

\* JavaScriptNativeInterface.register; it throws a TypeError, and changes
\* nothing, while window.__grower_jsni_functions does not exist
register(name, func) ==
    /\ regCount < MaxRegister
    /\ IF functions.exists
       THEN /\ functions' = SetProperty(functions, name, func)
            /\ lastReg' = [t |-> "register", name |-> name, func |-> func,
                            replaced |-> GetOwn(functions, name)]
            /\ regCount' = regCount + 1
       ELSE UNCHANGED <<functions, lastReg, regCount>>
    /\ UNCHANGED <<entryPoint, memory, shared, pc, session, pending, result, trace,
                   fat, others>>

\* what functions[name] evaluates to: an own property, else a property
\* inherited from Object.prototype (functions is a plain object; valueOf
\* stands for the inherited methods), else undefined
GetProperty(F, name) ==
    IF name \in DOMAIN F.own THEN F.own[name]
    ELSE IF name = NameValueOf THEN "Object.prototype.valueOf"
    ELSE "undefined"

\* the value functions[name](...args) settles with.  Calling undefined throws a
\* TypeError; Object.prototype.valueOf returns the object it is called on,
\* the functions object; a registered callback settles with outcome.
CallOutcome(func, outcome) ==
    IF func = "undefined" THEN Rejected("TypeError")
    ELSE IF func = "Object.prototype.valueOf" THEN Fulfilled(PlainObject)
    ELSE outcome

\* new JSNIFunctionCallingSession(imports, memory, functionNamePtr, argsPtr, argsCount)
NewSession(M, functionNamePtr, argsPtr, argsCount) ==
    [view |-> NewView(M),
     argsPtr |-> argsPtr,
     argsCount |-> argsCount,
     functionName |-> readString(M.mem, getUint32(M.mem, functionNamePtr),
                                 getUint32(M.mem, functionNamePtr + 4)),
     args |-> parseArgs(M.mem, argsPtr, argsCount)]

\* the memory after the module side has written the call at the heap top
WriteCall(M, name, slots) ==
    LET image == CallImage(M.top, name, slots)
    IN  [Reserve(M, Len(image)) EXCEPT !.mem = WriteAt(@, M.top, image)]

\* The module side writes a call and invokes window.jsni_call(namePtr, argsPtr,
\* argsCount); the entry point runs up to its await: it constructs the session
\* and session.call() calls the function found under the name.  What the call
\* settles with is known when the await resumes.
jsni_call(s, name, slots) ==
    /\ entryPoint
    /\ pc[s] = "idle"
    /\ \A r \in Sessions : r < s => pc[r] # "idle"
    /\ LET M == WriteCall(memory, name, slots)
           new == NewSession(M, memory.top, memory.top + 16, Len(slots))
           func == GetProperty(functions, new.functionName.cp)
       IN  /\ memory' = M
           /\ session' = [session EXCEPT ![s] = new]
           /\ trace' = [trace EXCEPT ![s] = [NoTrace EXCEPT !.name = name,
                                                 !.slots = slots,
                                                 !.invoked = func,
                                                 !.args = new.args]]
    /\ pc' = [pc EXCEPT ![s] = "awaiting"]
    /\ UNCHANGED <<functions, entryPoint, shared, pending, result, lastReg,
                   regCount, fat, others>>

\* a truth test under which an empty list is false
TruthyNonEmpty(v) ==
    CASE v.t \in {"undefined", "null"} -> FALSE
      [] IsArray(v) -> v.items # <<>>
      [] OTHER -> TRUE

\* ToBoolean(value)
Truthy(v) ==
    CASE v.t \in {"undefined", "null"} -> FALSE
      [] v.t = "boolean" -> v.v
      [] v.t = "string" -> v.cp # <<>>
      [] v.t \in {"number", "bigint"} -> IsInteger(v) => v.mag # <<>>
      [] OTHER -> TRUE

\* a 0 in the place of the -1
NoReturnValueZero == N(0)

\* the -1 of the entry point
NoReturnValue == MinusOne

Encoding(M) == [mem |-> M.mem, gen |-> M.gen, top |-> M.top, log |-> <<>>,
                stale |-> FALSE, thrown |-> "none"]

\* The rest of the entry point once session.call() has settled, on memory M
\* with the session's view:
\*   return value ? session.buildReturnValues(value) : -1
\* pc and result are what the entry point's promise settles with, W the memory
\* and the record of the allocator calls and writes
Settle(M, view, settled) ==
    IF ~settled.ok
    THEN [pc |-> "rejected", result |-> None,
          W |-> [Encoding(M) EXCEPT !.thrown = settled.value.name]]
    ELSE IF ~Truthy(settled.value)
    THEN [pc |-> "resolved", result |-> NoReturnValue, W |-> Encoding(M)]
    ELSE LET r == buildReturnValues(Encoding(M), view, settled.value)
         IN  IF r[1].thrown # "none"
             THEN [pc |-> "rejected", result |-> None, W |-> r[1]]
             ELSE [pc |-> "resolved", result |-> r[2], W |-> r[1]]

\* The await settles and the rest of the entry point runs:
\*   const value = await session.call();
\*   return value ? session.buildReturnValues(value) : -1
Resume(s) ==
    /\ pc[s] = "awaiting"
    /\ \E outcome \in Outcomes(session[s].args) :
         LET settled == CallOutcome(trace[s].invoked, outcome)
             end == Settle(memory, session[s].view, settled)
         IN  /\ pending' = [pending EXCEPT ![s] = settled]
             /\ pc' = [pc EXCEPT ![s] = end.pc]
             /\ result' = [result EXCEPT ![s] = end.result]
             /\ memory' = [mem |-> end.W.mem, gen |-> end.W.gen, top |-> end.W.top]
             /\ trace' = [trace EXCEPT ![s].log = end.W.log,
                                       ![s].stale = end.W.stale,
                                       ![s].thrown = end.W.thrown]
    /\ UNCHANGED <<functions, entryPoint, shared, session, lastReg, regCount, fat,
                   others>>

\* the module grows its memory while a callback is suspended whose session
\* holds a view of the current buffer
ModuleGrow ==
    /\ \E s \in Sessions : pc[s] = "awaiting" /\ session[s].view.gen = memory.gen
    /\ memory' = Grow(memory, 1)
    /\ UNCHANGED <<functions, entryPoint, shared, pc, session, pending, result,
                   trace, lastReg, regCount, fat, others>>

Next ==
    \/ JsniInit
    \/ \E name \in RegisterNames, func \in Callbacks : register(name, func)
    \/ \E s \in Sessions, name \in DispatchNames, slots \in SlotArrays :
          jsni_call(s, name, slots)
    \/ \E s \in Sessions : Resume(s)
    \/ ModuleGrow

Spec == Init /\ [][Next]_vars

(***************************************************************************)
(* The fat pointer convention on its own: the allocator packs an offset    *)
(* and a length, the host extracts the two words as buildReturnValues does *)
(***************************************************************************)
\* 32-bit words, the boundary values among them
Words ==
    { <<>>, <<1>>, <<255>>, <<0, 1>>, <<255, 255>>, <<0, 0, 0, 1>>,
      <<255, 255, 255, 127>>, <<0, 0, 0, 128>>, <<254, 255, 255, 255>>,
      <<255, 255, 255, 255>>, <<16, 0, 0, 0>> }

InitFat ==
    /\ Init
    /\ shared = FALSE

\* the allocator returns a fat pointer
Allocate(offset, length) ==
    /\ fat = None
    /\ fat' = [t |-> "returned", offset |-> Num(FALSE, offset),
                length |-> Num(FALSE, length),
                fp |-> pack(Num(FALSE, offset), Num(FALSE, length))]
    /\ UNCHANGED <<functions, entryPoint, memory, shared, pc, session, pending,
                   result, trace, lastReg, regCount, others>>

\* the host takes the fat pointer apart
Extract ==
    /\ fat.t = "returned"
    /\ fat' = [fat EXCEPT !.t = "extracted"] @@
              [low |-> LowWord(fat.fp), high |-> HighWord(fat.fp)]
    /\ UNCHANGED <<functions, entryPoint, memory, shared, pc, session, pending,
                   result, trace, lastReg, regCount, others>>

NextFat ==
    \/ \E offset \in Words, length \in Words : Allocate(offset, length)
    \/ Extract

SpecFat == InitFat /\ [][NextFat]_vars

(***************************************************************************)
(* An integer a callback returns, encoded by buildReturnValues and read    *)
(* back by parseArgs                                                       *)
(***************************************************************************)
\* 0, -1 and the minimum and maximum of the signed and the unsigned integers
\* of 8, 16, 32 and 64 bits
IntBoundaries ==
    { [neg |-> FALSE, mag |-> <<>>],
      [neg |-> TRUE, mag |-> <<1>>],
      [neg |-> TRUE, mag |-> <<128>>],
      [neg |-> FALSE, mag |-> <<127>>],
      [neg |-> FALSE, mag |-> <<255>>],
      [neg |-> TRUE, mag |-> <<0, 128>>],
      [neg |-> FALSE, mag |-> <<255, 127>>],
      [neg |-> FALSE, mag |-> <<255, 255>>],
      [neg |-> TRUE, mag |-> <<0, 0, 0, 128>>],
      [neg |-> FALSE, mag |-> <<255, 255, 255, 127>>],
      [neg |-> FALSE, mag |-> <<255, 255, 255, 255>>],
      [neg |-> TRUE, mag |-> <<0, 0, 0, 0, 0, 0, 0, 128>>],
      [neg |-> FALSE, mag |-> <<255, 255, 255, 255, 255, 255, 255, 127>>],
      [neg |-> FALSE, mag |-> <<255, 255, 255, 255, 255, 255, 255, 255>>] }

\* whether a Number holds the integer exactly: below 2^53, or -2^63
IsSafeNumber(b) == Len(b.mag) < 7 \/ b = [neg |-> TRUE, mag |-> <<0, 0, 0, 0, 0, 0, 0, 128>>]

\* the boundary values as a callback returns them: as a number, as a bigint
ReturnedIntegers ==
    {Num(b.neg, b.mag) : b \in {c \in IntBoundaries : IsSafeNumber(c)}}
        \cup {BigInt(b.neg, b.mag) : b \in IntBoundaries}

InitRoundTrip ==
    /\ Init
    /\ shared = FALSE

\* a callback returns v as element i of its result list
ReturnInteger(v, i) ==
    /\ roundTrip = None
    /\ roundTrip' = [t |-> "returned", v |-> v, i |-> i,
                      values |-> List(IF i = 0 THEN <<v>> ELSE <<JsNull, v>>)]
    /\ UNCHANGED <<functions, entryPoint, memory, shared, pc, session, pending,
                   result, trace, lastReg, regCount, fat, awaited, grower,
                   window, io>>

\* session.buildReturnValues(values), the session's views on the current buffer
EncodeReturned ==
    /\ roundTrip.t = "returned"
    /\ LET r == buildReturnValues(Encoding(memory), NewView(memory), roundTrip.values)
           W == r[1]
       IN  /\ W.thrown = "none"
           /\ memory' = [mem |-> W.mem, gen |-> W.gen, top |-> W.top]
           /\ roundTrip' = [roundTrip EXCEPT !.t = "encoded"] @@
                            [ptr |-> Addr(LowWord(W.log[1][3])), count |-> Addr(r[2])]
    /\ UNCHANGED <<functions, entryPoint, shared, pc, session, pending, result,
                   trace, lastReg, regCount, fat, awaited, grower, window, io>>

\* the module hands the slots back as arguments: parseArgs on them
DecodeReturned ==
    /\ roundTrip.t = "encoded"
    /\ roundTrip' = [roundTrip EXCEPT !.t = "decoded"] @@
                     [tag |-> memory.mem[roundTrip.ptr + roundTrip.i * 16 + 8 + 1],
                      decoded |-> parseArgs(memory.mem, roundTrip.ptr, roundTrip.count)]
    /\ UNCHANGED <<functions, entryPoint, memory, shared, pc, session, pending,
                   result, trace, lastReg, regCount, fat, awaited, grower,
                   window, io>>

NextRoundTrip ==
    \/ \E v \in ReturnedIntegers, i \in {0, 1} : ReturnInteger(v, i)
    \/ EncodeReturned
    \/ DecodeReturned

SpecRoundTrip == InitRoundTrip /\ [][NextRoundTrip]_vars

(***************************************************************************)
(* One call settled twice on the same memory: the callback returning its   *)
(* result list directly, and returning a promise of it.  call() is an      *)
(* async function whose body returns what the callback returned.           *)
(***************************************************************************)
\* a promise, by what it settles with
Promise(settles) == [t |-> "object", promise |-> settles]
IsPromise(x) == x.t = "object" /\ "promise" \in DOMAIN x

\* an async function whose promise is fulfilled with whatever the body returned
AsyncReturnNoAdopt(x) == Fulfilled(x)

\* what the promise of an async function settles with when its body returns
\* x: a promise returned is adopted
AsyncReturn(x) == IF IsPromise(x) THEN x.promise ELSE Fulfilled(x)

InitAwait == Init

\* the module dispatches a registered name; the session is constructed and the
\* callback, which is to yield v, is called
CallPair(v, slots) ==
    /\ awaited = None
    /\ LET M == WriteCall(memory, NameA, slots)
       IN  /\ memory' = M
           /\ awaited' = [t |-> "called", v |-> v,
                           session |-> NewSession(M, memory.top, memory.top + 16,
                                                  Len(slots)),
                           direct |-> None, promised |-> None]
    /\ UNCHANGED <<functions, entryPoint, shared, pc, session, pending, result,
                   trace, lastReg, regCount, fat, roundTrip, grower, window, io>>

\* the module grows its memory while the call is suspended
GrowPair ==
    /\ awaited.t = "called"
    /\ awaited.session.view.gen = memory.gen
    /\ awaited.direct = None /\ awaited.promised = None
    /\ memory' = Grow(memory, 1)
    /\ UNCHANGED <<functions, entryPoint, shared, pc, session, pending, result,
                   trace, lastReg, regCount, fat, others>>

\* what the entry point does from the await on when the callback returned x
Awaited(x) ==
    LET end == Settle(memory, awaited.session.view, AsyncReturn(x))
    IN  [pc |-> end.pc, result |-> end.result, log |-> end.W.log,
         mem |-> end.W.mem, thrown |-> end.W.thrown]

\* the callback returned v itself
SettleDirect ==
    /\ awaited.t = "called" /\ awaited.direct = None
    /\ awaited' = [awaited EXCEPT !.direct = Awaited(awaited.v)]
    /\ UNCHANGED <<functions, entryPoint, memory, shared, pc, session, pending,
                   result, trace, lastReg, regCount, fat, roundTrip, grower,
                   window, io>>

\* the callback returned a promise that is fulfilled with v
SettlePromised ==
    /\ awaited.t = "called" /\ awaited.promised = None
    /\ awaited' = [awaited EXCEPT !.promised = Awaited(Promise(Fulfilled(awaited.v)))]
    /\ UNCHANGED <<functions, entryPoint, memory, shared, pc, session, pending,
                   result, trace, lastReg, regCount, fat, roundTrip, grower,
                   window, io>>

NextAwait ==
    \/ \E v \in Returns, slots \in SlotArrays : CallPair(v, slots)
    \/ GrowPair
    \/ SettleDirect
    \/ SettlePromised

SpecAwait == InitAwait /\ [][NextAwait]_vars

(***************************************************************************)
(* Grower.init on one instance, and initSys                                *)
(***************************************************************************)
\* a test that never finds the instance initialized
NeverInitialized(g) == FALSE

\* if (this.initialized)
AlreadyInitialized(g) == g.initialized

\* initSys from the test of FDMAP on: the descriptor table is created when
\* there is none, the handlers are set
InitSysTail(w) ==
    [w EXCEPT !.fdmap = IF w.fdmap.exists THEN w.fdmap
                        ELSE [exists |-> TRUE, own |-> <<>>],
              !.stdout = "stdOutHandler", !.stderr = "stdErrHandler"]

\* init() is called: it throws when the instance is initialized, else it
\* calls initSys, which runs up to its first await (getDirectory, when there
\* is no OPFS root) or to its end, and init suspends on initSys
GrowerInit(c) ==
    /\ grower.call[c].pc = "idle"
    /\ \A b \in InitCalls : b < c => grower.call[b].pc # "idle"
    /\ IF AlreadyInitialized(grower)
       THEN /\ grower' = [grower EXCEPT !.call[c] =
                   [pc |-> "rejected", error |-> "Grower is already initialized."]]
            /\ UNCHANGED window
       ELSE IF ~window.root
       THEN /\ grower' = [grower EXCEPT !.call[c].pc = "getDirectory"]
            /\ UNCHANGED window
       ELSE /\ grower' = [grower EXCEPT !.call[c].pc = "initSys"]
            /\ window' = InitSysTail(window)
    /\ UNCHANGED <<functions, entryPoint, memory, shared, pc, session, pending,
                   result, trace, lastReg, regCount, fat, roundTrip, awaited, io>>

\* navigator.storage.getDirectory() settles and initSys runs to its end; when
\* it rejects, initSys and init reject with it
GetDirectorySettles(c, ok) ==
    /\ grower.call[c].pc = "getDirectory"
    /\ IF ok
       THEN /\ grower' = [grower EXCEPT !.call[c].pc = "initSys"]
            /\ window' = InitSysTail([window EXCEPT !.root = TRUE])
       ELSE /\ grower' = [grower EXCEPT !.call[c] =
                   [pc |-> "rejected", error |-> "getDirectory"]]
            /\ UNCHANGED window
    /\ UNCHANGED <<functions, entryPoint, memory, shared, pc, session, pending,
                   result, trace, lastReg, regCount, fat, roundTrip, awaited, io>>

\* init resumes after initSys: this.jsni.init(); this.initialized = true
GrowerInitResume(c) ==
    /\ grower.call[c].pc = "initSys"
    /\ functions' = IF functions.exists THEN functions
                    ELSE [exists |-> TRUE, own |-> <<>>]
    /\ entryPoint' = TRUE
    /\ grower' = [grower EXCEPT !.initialized = TRUE, !.call[c].pc = "done"]
    /\ UNCHANGED <<memory, shared, pc, session, pending, result, trace, lastReg,
                   regCount, fat, roundTrip, awaited, window, io>>

InitGrower == Init

NextGrower ==
    \/ \E c \in InitCalls : GrowerInit(c)
    \/ \E c \in InitCalls, ok \in BOOLEAN : GetDirectorySettles(c, ok)
    \/ \E c \in InitCalls : GrowerInitResume(c)
    \/ \E name \in RegisterNames, func \in Callbacks : register(name, func)

SpecGrower == InitGrower /\ [][NextGrower]_vars

(***************************************************************************)
(* sys.ts: open and close over the origin private file system.  A path is  *)
(* a sequence of characters, a name a sequence of characters without "/",  *)
(* a handle the sequence of names that leads to its entry from the root.   *)
(***************************************************************************)
\* the entries of the file system the calls run on
Directories == { <<>>, << <<"d">> >> }
Files == { << <<"a">> >>, << <<"d">>, <<"f">> >> }

\* the paths open is called with, and the descriptors close is called with
Paths == { <<"a">>, <<"/", "d", "/", "f">>, <<"x">>, <<"y", "/", "f">>, <<"d">> }
Fds == {2, 3, 4}

RECURSIVE split(_)
\* path.split("/")
split(path) ==
    IF \A i \in 1..Len(path) : path[i] # "/" THEN <<path>>
    ELSE LET i == CHOOSE j \in 1..Len(path) :
                      path[j] = "/" /\ \A h \in 1..(j - 1) : path[h] # "/"
         IN  <<SubSeq(path, 1, i - 1)>> \o split(SubSeq(path, i + 1, Len(path)))

\* path.startsWith("/")
startsWith(path) == path # <<>> /\ path[1] = "/"

\* array.slice(0, -1)
dropLast(a) == SubSeq(a, 1, Len(a) - 1)

\* getFileNameFromPath: path.split("/").pop()
getFileNameFromPath(path) == split(path)[Len(split(path))]

Throw(name) == [t |-> "throw", name |-> name]
Handle(entry) == [t |-> "handle", entry |-> entry]

\* names the file system does not take
InvalidName(name) == name \in { <<>>, <<".">>, <<".", ".">> }

\* FileSystemDirectoryHandle.getDirectoryHandle(name), without create
getDirectoryHandle(parent, name) ==
    IF InvalidName(name) THEN Throw("TypeError")
    ELSE IF Append(parent, name) \in Directories THEN Handle(Append(parent, name))
    ELSE IF Append(parent, name) \in Files THEN Throw("TypeMismatchError")
    ELSE Throw("NotFoundError")

\* FileSystemDirectoryHandle.getFileHandle(name), without create
getFileHandleOf(parent, name) ==
    IF InvalidName(name) THEN Throw("TypeError")
    ELSE IF Append(parent, name) \in Files THEN Handle(Append(parent, name))
    ELSE IF Append(parent, name) \in Directories THEN Throw("TypeMismatchError")
    ELSE Throw("NotFoundError")

RECURSIVE walk(_, _)
\* the loop of getLastDirectory: undefined as soon as a step throws
walk(parentDir, dirs) ==
    IF dirs = <<>> THEN Handle(parentDir)
    ELSE LET next == getDirectoryHandle(parentDir, Head(dirs))
         IN  IF next.t = "throw" THEN Undefined ELSE walk(next.entry, Tail(dirs))

\* getLastDirectory(path), the OPFS root being there
getLastDirectory(path) ==
    LET dirs == IF startsWith(path) THEN dropLast(split(Tail(path)))
                ELSE dropLast(split(path))
    IN  IF Len(dirs) = 0 THEN Handle(<<>>) ELSE walk(<<>>, dirs)

\* getFileHandle(path): a handle, undefined, or what dirHandle.getFileHandle throws
getFileHandle(w, path) ==
    IF ~w.root THEN Undefined
    ELSE LET dirHandle == getLastDirectory(path)
         IN  IF dirHandle = Undefined THEN Undefined
             ELSE getFileHandleOf(dirHandle.entry, getFileNameFromPath(path))

\* an io call k is made: the calls are numbered in the order they are made
Begins(k) ==
    /\ io[k].pc = "idle"
    /\ \A h \in IoCalls : h < k => io[h].pc # "idle"

\* open(path) up to the end of its await of getFileHandle
Open(k, path) ==
    /\ Begins(k)
    /\ io' = [io EXCEPT ![k] = [@ EXCEPT !.pc = "opening", !.op = "open",
                                         !.arg = path,
                                         !.found = getFileHandle(window, path)]]
    /\ UNCHANGED <<functions, entryPoint, memory, shared, pc, session, pending,
                   result, trace, lastReg, regCount, fat, roundTrip, awaited,
                   grower, window>>

\* Object.keys(FDMAP).length + 3
NextFd(fdmap) == Cardinality(DOMAIN fdmap.own) + 3

\* open(path) from the await on
OpenSettles(k) ==
    /\ io[k].pc = "opening"
    /\ LET handle == io[k].found
       IN  IF handle.t = "throw"
           THEN /\ io' = [io EXCEPT ![k].pc = "rejected", ![k].error = handle.name]
                /\ UNCHANGED window
           ELSE IF handle = Undefined
           THEN /\ io' = [io EXCEPT ![k].pc = "returned", ![k].ret = <<-1>>]
                /\ UNCHANGED window
           ELSE LET res == NextFd(window.fdmap)
                IN  /\ window' = [window EXCEPT !.fdmap.own =
                          [fd \in DOMAIN @ \cup {res} |->
                              IF fd = res THEN handle ELSE @[fd]]]
                    /\ io' = [io EXCEPT ![k].pc = "returned", ![k].ret = <<res>>]
    /\ UNCHANGED <<functions, entryPoint, memory, shared, pc, session, pending,
                   result, trace, lastReg, regCount, fat, roundTrip, awaited,
                   grower>>

\* fd in FDMAP
In(fd, fdmap) == fd \in DOMAIN fdmap.own

\* close(fd); `in` throws a TypeError when there is no descriptor table
Close(k, fd) ==
    /\ Begins(k)
    /\ IF ~window.fdmap.exists
       THEN /\ io' = [io EXCEPT ![k] = [@ EXCEPT !.pc = "rejected", !.op = "close",
                                                 !.arg = fd, !.error = "TypeError"]]
            /\ UNCHANGED window
       ELSE IF ~In(fd, window.fdmap)
       THEN /\ io' = [io EXCEPT ![k] = [@ EXCEPT !.pc = "returned", !.op = "close",
                                                 !.arg = fd, !.ret = <<-1>>]]
            /\ UNCHANGED window
       ELSE /\ window' = [window EXCEPT !.fdmap.own =
                              [d \in DOMAIN @ \ {fd} |-> @[d]]]
            /\ io' = [io EXCEPT ![k] = [@ EXCEPT !.pc = "returned", !.op = "close",
                                                 !.arg = fd, !.ret = <<0>>]]
    /\ UNCHANGED <<functions, entryPoint, memory, shared, pc, session, pending,
                   result, trace, lastReg, regCount, fat, roundTrip, awaited,
                   grower>>

InitSys ==
    /\ Init
    /\ shared = FALSE

\* one call of Grower.init brings the globals of sys.ts about
NextSys ==
    \/ GrowerInit(1)
    \/ \E ok \in BOOLEAN : GetDirectorySettles(1, ok)
    \/ GrowerInitResume(1)
    \/ \E k \in IoCalls, path \in Paths : Open(k, path)
    \/ \E k \in IoCalls : OpenSettles(k)
    \/ \E k \in IoCalls, fd \in Fds : Close(k, fd)

SpecSys == InitSys /\ [][NextSys]_vars

(***************************************************************************)
(* The module side reusing the argument buffer of a suspended invocation   *)
(* for its next call, and the host registering callbacks meanwhile         *)
(***************************************************************************)
\* slot arrays with bytes and a string behind them
ReuseSlots ==
    { <<Scalar(I32, <<5>>), Pointed(VecU8, <<1, 2>>)>>,
      <<Pointed(String, <<195, 169>>)>>,
      <<Pointed(VecU8, <<9, 9, 9>>), Scalar(U8, <<1>>)>> }

\* The module side writes the call of invocation s over the call of the
\* suspended invocation r and invokes window.jsni_call on it.
jsni_call_reusing(s, r, name, slots) ==
    /\ entryPoint
    /\ pc[s] = "idle"
    /\ \A q \in Sessions : q < s => pc[q] # "idle"
    /\ pc[r] = "awaiting"
    /\ LET base == session[r].argsPtr - 16
           image == CallImage(base, name, slots)
           M == [memory EXCEPT !.mem = WriteAt(@, base, image)]
           new == NewSession(M, base, base + 16, Len(slots))
           func == GetProperty(functions, new.functionName.cp)
       IN  /\ base + Len(image) <= Len(memory.mem)
           /\ memory' = M
           /\ session' = [session EXCEPT ![s] = new]
           /\ trace' = [trace EXCEPT ![s] = [NoTrace EXCEPT !.name = name,
                                                 !.slots = slots,
                                                 !.invoked = func,
                                                 !.args = new.args]]
    /\ pc' = [pc EXCEPT ![s] = "awaiting"]
    /\ UNCHANGED <<functions, entryPoint, shared, pending, result, lastReg,
                   regCount, fat, others>>

InitReuse == Init

NextReuse ==
    \/ JsniInit
    \/ \E func \in Callbacks : register(NameA, func)
    \/ \E s \in Sessions, slots \in ReuseSlots : jsni_call(s, NameA, slots)
    \/ \E s \in Sessions, r \in Sessions, slots \in ReuseSlots :
          jsni_call_reusing(s, r, NameA, slots)
    \/ \E s \in Sessions : Resume(s)

SpecReuse == InitReuse /\ [][NextReuse]_vars

(***************************************************************************)
(* Properties                                                              *)
(***************************************************************************)
Finished(s) == pc[s] \in {"resolved", "rejected"}

\* the low and the high word of a fat pointer, as the allocator packed them
OffsetOf(fp) == ToNat(SubSeq(Fit(fp.mag, 8), 1, 4))
LengthBytes(fp) == SubSeq(Fit(fp.mag, 8), 5, 8)

\* the value session.call() of s settled with is the list items
Yields(s, items) == pending[s] = Fulfilled(List(items))
YieldsList(s) == pending[s].ok /\ IsArray(pending[s].value)
Items(s) == pending[s].value.items

\* v falls under one of the kinds the encoder writes
Encodable(v) ==
    \/ typeof(v) \in {"number", "bigint", "string"}
    \/ IsUint8Array(v)
    \/ v = JsNull

ExpectedTag(v) ==
    CASE typeof(v) = "number" -> IF IsInteger(v) THEN I64 ELSE F64
      [] typeof(v) = "bigint" -> I64
      [] typeof(v) = "string" -> String
      [] IsUint8Array(v) -> VecU8
      [] OTHER -> Null

\* the number n is the length word of fp
IsLengthWordOf(n, fp) ==
    n.t = "number" /\ ~n.neg /\ Fit(n.mag, 4) = LengthBytes(fp)

\* C1: within an invocation no access to memory goes through a view taken
\* before the memory grew: whenever the memory grows between taking a view and
\* using it, the view is taken anew before the next access.
C1_NoAccessThroughStaleView == \A s \in Sessions : ~trace[s].stale

\* C2: when the callback yields undefined the entry point resolves to exactly
\* -1 and the invocation calls neither alloc_jsni_value nor alloc.
C2_UndefinedYieldsSentinel ==
    \A s \in Sessions :
        (Finished(s) /\ pending[s] = Fulfilled(Undefined)) =>
            /\ pc[s] = "resolved"
            /\ result[s] = MinusOne
            /\ trace[s].log = <<>>

C2_Witness ==
    \E s \in Sessions :
        /\ pc[s] = "resolved"
        /\ pending[s] = Fulfilled(Undefined)
        /\ trace[s].invoked \in Callbacks
        /\ result[s] = MinusOne

\* C3 as stated: when the callback yields an empty list or null, the entry
\* point resolves to -1.
C3_EmptyOrNullYieldsSentinel ==
    \A s \in Sessions :
        (Finished(s) /\ pending[s] \in {Fulfilled(JsNull), Fulfilled(List(<<>>))}) =>
            pc[s] = "resolved" /\ result[s] = MinusOne

\* C3 as amended: null yields -1 without any allocator call; an empty list is
\* encoded: alloc_jsni_value(0) is called once, nothing is written, and the
\* entry point resolves to the length word of the fat pointer returned, which
\* is not -1.
C3_NullYieldsSentinelEmptyListIsEncoded ==
    \A s \in Sessions :
        Finished(s) =>
            /\ pending[s] = Fulfilled(JsNull) =>
                  pc[s] = "resolved" /\ result[s] = MinusOne /\ trace[s].log = <<>>
            /\ Yields(s, <<>>) =>
                  /\ pc[s] = "resolved"
                  /\ Len(trace[s].log) = 1
                  /\ trace[s].log[1][1] = "alloc_jsni_value"
                  /\ trace[s].log[1][2] = 0
                  /\ IsLengthWordOf(result[s], trace[s].log[1][3])
                  /\ result[s] # MinusOne

C3_Witness ==
    \E s, r \in Sessions :
        /\ pc[s] = "resolved" /\ Yields(s, <<>>) /\ result[s] = N(0)
        /\ pc[r] = "resolved" /\ pending[r] = Fulfilled(JsNull) /\ result[r] = MinusOne

\* C4: dispatching a name no callback is registered under fails the
\* invocation (the promise rejects), and the invocation writes nothing to
\* memory and calls no allocator.
C4_UnregisteredNameRejects ==
    \A s \in Sessions :
        (Finished(s) /\ trace[s].invoked \notin Callbacks) =>
            pc[s] = "rejected" /\ trace[s].log = <<>>

\* C5: register(name, f) inserts or overwrites: the registry then holds f
\* under name and what it held under every other name; nothing but register
\* changes the registry; and a dispatch of a registered name invokes the
\* callback the registry holds, so after register(name, f1), register(name, f2)
\* it invokes f2.
C5_LastRegistrationWins ==
    [][/\ (regCount' # regCount /\ functions.exists) =>
             /\ lastReg'.t = "register"
             /\ DOMAIN functions'.own = DOMAIN functions.own \cup {lastReg'.name}
             /\ functions'.own[lastReg'.name] = lastReg'.func
             /\ \A n \in DOMAIN functions.own \ {lastReg'.name} :
                   functions'.own[n] = functions.own[n]
       /\ (regCount' = regCount /\ functions.exists) => functions' = functions
       /\ \A s \in Sessions :
             (pc[s] = "idle" /\ pc'[s] # "idle") =>
                 /\ trace'[s].name \in DOMAIN functions.own =>
                       trace'[s].invoked = functions.own[trace'[s].name]
                 /\ (lastReg.t = "register" /\ trace'[s].name = lastReg.name) =>
                       trace'[s].invoked = lastReg.func
      ]_vars

C5_Witness ==
    /\ lastReg.t = "register"
    /\ lastReg.name = NameA /\ lastReg.func = "f2" /\ lastReg.replaced = "f1"
    /\ \E s \in Sessions : pc[s] # "idle" /\ trace[s].name = NameA
                           /\ trace[s].invoked = "f2"

\* C6: for a slot array of N slots the decoder yields exactly N values, the
\* i-th decoded from the i-th slot (null for a Null slot), and the callback is
\* invoked with exactly that list.
C6_ArgsMatchSlots ==
    \A s \in Sessions :
        pc[s] # "idle" =>
            /\ Len(session[s].args) = Len(trace[s].slots)
            /\ trace[s].args = session[s].args
            /\ \A i \in 1..Len(trace[s].slots) :
                  /\ <<session[s].args[i]>> =
                        parseSlot(memory.mem, session[s].argsPtr + 16 * (i - 1))
                  /\ trace[s].slots[i].tag = Null => session[s].args[i] = JsNull

\* C7: when an element of the result list falls under no kind, the encode and
\* the invocation fail: the entry point does not resolve.
C7_UnclassifiableElementRejects ==
    \A s \in Sessions :
        (Finished(s) /\ YieldsList(s)
           /\ \E i \in 1..Len(Items(s)) : ~Encodable(Items(s)[i])) =>
            pc[s] = "rejected"

\* C8: for a text element whose UTF-8 encoding has L bytes, the encoder takes
\* a region from alloc(L + 1), writes the L bytes and a zero byte into it, and
\* writes a slot with the tag String whose payload offset is the offset of
\* that region.  (Stated of the invocations that resolve.)
C8_StringSlotPointsAtBytes ==
    \A s \in Sessions :
        (pc[s] = "resolved" /\ YieldsList(s)) =>
            \A i \in 1..Len(Items(s)) :
                typeof(Items(s)[i]) = "string" =>
                    LET enc == TextEncode(Items(s)[i].cp)
                        log == trace[s].log
                        slot == OffsetOf(log[1][3]) + 16 * (i - 1)
                    IN  \E j \in 2..Len(log) :
                            /\ log[j][1] = "alloc"
                            /\ log[j][2] = Len(enc) + 1
                            /\ Rd(memory.mem, OffsetOf(log[j][3]), Len(enc) + 1)
                                  = enc \o <<0>>
                            /\ memory.mem[slot + 8 + 1] = String
                            /\ Rd(memory.mem, slot, 4) = Word(OffsetOf(log[j][3]))

\* C9: for a non-empty result list of k encodable values the invocation calls
\* alloc_jsni_value once, with k, before any write, writes the i-th value's tag
\* and payload into the slot at offset + 16 * i (an integer as a 64-bit signed
\* integer), and resolves to the high word of the fat pointer.
C9_ResultListIsEncoded ==
    \A s \in Sessions :
        (Finished(s) /\ YieldsList(s) /\ Items(s) # <<>>
           /\ \A i \in 1..Len(Items(s)) : Encodable(Items(s)[i])) =>
            /\ pc[s] = "resolved"
            /\ LET log == trace[s].log
                   k == Len(Items(s))
               IN  /\ log # <<>>
                   /\ log[1][1] = "alloc_jsni_value"
                   /\ log[1][2] = k
                   /\ \A j \in 2..Len(log) : log[j][1] # "alloc_jsni_value"
                   /\ IsLengthWordOf(result[s], log[1][3])
                   /\ \A i \in 1..k :
                         LET slot == OffsetOf(log[1][3]) + 16 * (i - 1)
                             v == Items(s)[i]
                         IN  /\ memory.mem[slot + 8 + 1] = ExpectedTag(v)
                             /\ "mag" \in DOMAIN v =>
                                   Rd(memory.mem, slot, 8) = Int64Bytes(v)

\* C9 holds of the invocations whose view was not stale
C9_HoldsWithFreshView ==
    \A s \in Sessions :
        (Finished(s) /\ YieldsList(s) /\ Items(s) # <<>> /\ ~trace[s].stale
           /\ \A i \in 1..Len(Items(s)) : Encodable(Items(s)[i])) =>
            /\ pc[s] = "resolved"
            /\ IsLengthWordOf(result[s], trace[s].log[1][3])

\* C10: for every fat pointer (length << 32) | offset with offset and length
\* in 0..2^32-1 the host's low word is offset and its high word is length,
\* and the length word is not the sentinel -1.
C10_ExtractionInvertsPack ==
    fat.t = "extracted" =>
        /\ fat.low = fat.offset
        /\ fat.high = fat.length
        /\ fat.high # MinusOne

C10_Witness ==
    /\ fat.t = "extracted"
    /\ fat.offset = Num(FALSE, <<255, 255, 255, 255>>)
    /\ fat.length = Num(FALSE, <<255, 255, 255, 255>>)
    /\ fat.high = fat.length
\* the same integer, whether held as a number or as a bigint
SameInteger(a, b) ==
    /\ "mag" \in DOMAIN a /\ "mag" \in DOMAIN b
    /\ a.neg = b.neg /\ a.mag = b.mag

\* within the signed 64-bit range
InInt64(v) == Len(v.mag) < 8 \/ v.mag[8] < 128
              \/ (v.neg /\ v.mag = <<0, 0, 0, 0, 0, 0, 0, 128>>)

\* C11: an integer a callback returns, as a number or as a bigint, is written
\* to a slot tagged I64, and the argument decoder reads the same integer back
\* from that slot, at 0, -1 and the minimum and maximum of every width.
C11_IntegerRoundTrip ==
    roundTrip.t = "decoded" =>
        /\ roundTrip.tag = I64
        /\ Len(roundTrip.decoded) = Len(roundTrip.values.items)
        /\ SameInteger(roundTrip.decoded[roundTrip.i + 1], roundTrip.v)

\* the round trip of the integers within the signed 64-bit range
C11_HoldsWithinInt64 ==
    (roundTrip.t = "decoded" /\ InInt64(roundTrip.v)) =>
        /\ roundTrip.tag = I64
        /\ SameInteger(roundTrip.decoded[roundTrip.i + 1], roundTrip.v)
        /\ typeof(roundTrip.decoded[roundTrip.i + 1]) = "bigint"

\* an invocation that fails in this step for one of: no function under the
\* name, a callback that throws or rejects, a value that cannot be encoded
Fails(s) ==
    /\ pc[s] = "awaiting" /\ pc'[s] = "rejected"
    /\ trace[s].invoked = "undefined" \/ trace'[s].thrown = "Error"

\* what invocation r would settle with on memory M if its callback yields o
WouldSettle(M, r, o) ==
    LET end == Settle(M, session[r].view, CallOutcome(trace[r].invoked, o))
    IN  <<end.pc, end.result>>

\* C12: a failing invocation leaves the registry as it is, and every other
\* invocation in flight keeps its callback and its decoded arguments and
\* settles as it would have settled without the failure.
C12_FailureIsIsolated ==
    [][\A s \in Sessions :
          Fails(s) =>
              /\ functions' = functions
              /\ \A r \in Sessions \ {s} :
                    pc[r] = "awaiting" =>
                        /\ session'[r] = session[r]
                        /\ trace'[r] = trace[r]
                        /\ \A o \in Outcomes(session[r].args) :
                              WouldSettle(memory', r, o) = WouldSettle(memory, r, o)
      ]_vars

\* the part of C12 that does not depend on the memory: registry, callback and
\* decoded arguments of the other invocations
C12_RegistryAndSessionsKept ==
    [][\A s \in Sessions :
          Fails(s) =>
              /\ functions' = functions
              /\ \A r \in Sessions \ {s} :
                    session'[r] = session[r] /\ trace'[r] = trace[r]
      ]_vars

\* C13: a callback that returns a result list and a callback that returns a
\* promise of the same list lead, on the same memory and arguments, to the
\* same allocator calls, the same writes, the same memory and the same value
\* (or failure) of the entry point.
C13_AwaitIsUniform ==
    (awaited.t = "called" /\ awaited.direct # None /\ awaited.promised # None) =>
        awaited.direct = awaited.promised

C13_Witness ==
    /\ awaited.t = "called"
    /\ awaited.v = List(<<MinusOne, Str(<<111, 233>>)>>)
    /\ awaited.direct # None /\ awaited.promised # None
    /\ awaited.promised.pc = "resolved" /\ awaited.promised.result = N(2)
    /\ Len(awaited.promised.log) > 2

\* C14: the registry is never pruned: once there is a registry there is one in
\* every later state, and a name registered in it stays registered, under
\* some callback, over every register, init and dispatch.
C14_RegistryNeverPruned ==
    [][/\ functions.exists => functions'.exists
       /\ \A n \in DOMAIN functions.own :
             n \in DOMAIN functions'.own /\ functions'.own[n] \in Callbacks
      ]_vars

C14_Witness ==
    /\ RegisterNames \subseteq DOMAIN functions.own
    /\ \E s \in Sessions : pc[s] = "resolved" /\ trace[s].invoked \in Callbacks

\* C15: a call of init() on an instance whose earlier init() has completed
\* fails with "Grower is already initialized.", runs neither initSys nor
\* jsni.init, and leaves the instance and the globals as they are.
C15_InitializedInstanceThrows ==
    [][\A c \in InitCalls :
          (/\ grower.call[c].pc = "idle" /\ grower'.call[c].pc # "idle"
           /\ \E b \in InitCalls : grower.call[b].pc = "done") =>
              /\ grower'.call[c] =
                    [pc |-> "rejected", error |-> "Grower is already initialized."]
              /\ grower'.initialized = grower.initialized
              /\ \A b \in InitCalls \ {c} : grower'.call[b] = grower.call[b]
              /\ window' = window
              /\ functions' = functions /\ entryPoint' = entryPoint
      ]_vars

C15_Witness ==
    \E b, c \in InitCalls :
        /\ grower.call[b].pc = "done"
        /\ grower.call[c] = [pc |-> "rejected", error |-> "Grower is already initialized."]
        /\ window.fdmap.exists /\ entryPoint

\* the calls of init that ran initSys and jsni.init and set this.initialized
Initialized == {c \in InitCalls : grower.call[c].pc = "done"}

\* C19: over any calls of init() on one instance, also calls made while an
\* earlier one is suspended on initSys, at most one call carries out initSys
\* and jsni.init; every other call fails as already initialized.
C19_AtMostOneInitialization ==
    /\ Cardinality(Initialized) <= 1
    /\ \A c \in InitCalls :
          (Initialized # {} /\ grower.call[c].pc = "initSys") => c \in Initialized

\* the names a path leads through, a leading "/" dropped
EntryOf(path) == IF startsWith(path) THEN split(Tail(path)) ELSE split(path)

\* the descriptors that are open
OpenFds == IF window.fdmap.exists THEN DOMAIN window.fdmap.own ELSE {}

\* C16: open(path) for a path at which there is no file returns [-1] and
\* leaves the descriptor table as it is; it does not fail with an exception.
C16_OpenMissingYieldsMinusOne ==
    [][\A k \in IoCalls :
          (/\ io[k].pc = "opening" /\ io'[k].pc # "opening"
           /\ EntryOf(io[k].arg) \notin Files) =>
              /\ io'[k].pc = "returned" /\ io'[k].ret = <<-1>>
              /\ window' = window
      ]_vars

\* the missing intermediate directory: open returns [-1], the table is kept
C16_HoldsForMissingDirectory ==
    [][\A k \in IoCalls :
          (/\ io[k].pc = "opening" /\ io'[k].pc # "opening"
           /\ dropLast(EntryOf(io[k].arg)) \notin Directories) =>
              /\ io'[k].pc = "returned" /\ io'[k].ret = <<-1>>
              /\ window' = window
      ]_vars

\* C17: close(fd) of an open fd returns [0] and removes the entry fd and no
\* other from the descriptor table; close(fd) of an fd that is not open
\* returns [-1] and leaves the table as it is.
C17_CloseRemovesExactlyFd ==
    [][\A k \in IoCalls :
          (io[k].pc = "idle" /\ io'[k].op = "close") =>
              LET fd == io'[k].arg
              IN  IF fd \in OpenFds
                  THEN /\ io'[k].pc = "returned" /\ io'[k].ret = <<0>>
                       /\ DOMAIN window'.fdmap.own = DOMAIN window.fdmap.own \ {fd}
                       /\ \A d \in DOMAIN window'.fdmap.own :
                             window'.fdmap.own[d] = window.fdmap.own[d]
                  ELSE /\ io'[k].pc = "returned" /\ io'[k].ret = <<-1>>
                       /\ window' = window
      ]_vars

\* C17 for the calls made once initSys has created the descriptor table
C17_HoldsOnceTableExists ==
    [][\A k \in IoCalls :
          (io[k].pc = "idle" /\ io'[k].op = "close" /\ window.fdmap.exists) =>
              LET fd == io'[k].arg
              IN  IF fd \in OpenFds
                  THEN /\ io'[k].pc = "returned" /\ io'[k].ret = <<0>>
                       /\ DOMAIN window'.fdmap.own = DOMAIN window.fdmap.own \ {fd}
                       /\ \A d \in DOMAIN window'.fdmap.own :
                             window'.fdmap.own[d] = window.fdmap.own[d]
                  ELSE /\ io'[k].pc = "returned" /\ io'[k].ret = <<-1>>
                       /\ window' = window
      ]_vars

\* C18: a descriptor that open returns is at least 3 and is none of the
\* descriptors open at that moment, so no open handle is replaced.
C18_OpenReturnsFreshFd ==
    [][\A k \in IoCalls :
          (/\ io[k].pc = "opening" /\ io'[k].pc = "returned"
           /\ io'[k].ret # <<-1>>) =>
              /\ io'[k].ret[1] >= 3
              /\ io'[k].ret[1] \notin OpenFds
              /\ \A d \in OpenFds : window'.fdmap.own[d] = window.fdmap.own[d]
      ]_vars

\* the descriptors open returns are at least 3
C18_NeverReserved ==
    \A k \in IoCalls :
        (io[k].op = "open" /\ io[k].pc = "returned" /\ io[k].ret # <<-1>>) =>
            io[k].ret[1] >= 3

\* the argument values a callback holds, as they read on memory m: a copy
\* reads as itself, a view of the memory as the bytes now there
Observed(m, args) ==
    [i \in 1..Len(args) |->
        IF "view" \in DOMAIN args[i]
        THEN Bytes(Slice(m, args[i].view.ptr, args[i].view.len))
        ELSE args[i]]

\* the values the module side passed in slots
Passed(slots) ==
    [i \in 1..Len(slots) |->
        IF slots[i].tag = VecU8 THEN Bytes(slots[i].data)
        ELSE IF slots[i].tag = String THEN Str(TextDecode(slots[i].data))
        ELSE Unsigned(Trim(slots[i].payload))]

\* C20: the name and the arguments are decoded and the callback is resolved
\* and started in the step that enters the entry point, and neither a
\* register nor a write of another invocation over the argument slots during
\* the suspension changes the callback or the argument values.
C20_DecodeAndStartAreOneStep ==
    [][\A s \in Sessions :
          /\ (pc[s] = "idle" /\ pc'[s] # "idle") =>
                /\ pc'[s] = "awaiting"
                /\ trace'[s].invoked = GetProperty(functions, trace'[s].name)
                /\ Observed(memory'.mem, session'[s].args) = Passed(trace'[s].slots)
          /\ pc[s] # "idle" =>
                /\ trace'[s].invoked = trace[s].invoked
                /\ Observed(memory'.mem, session'[s].args)
                      = Observed(memory.mem, session[s].args)
      ]_vars

C20_Witness ==
    \E s \in Sessions :
        /\ pc[s] = "resolved"
        /\ trace[s].invoked = "f1" /\ functions.own[NameA] = "f2"
        /\ session[s].args = <<N(5), Bytes(<<1, 2>>)>>
        /\ parseArgs(memory.mem, session[s].argsPtr, session[s].argsCount)
              # session[s].args

====
